---- MODULE Spec2Model ----
(***************************************************************************)
(* A model of the `definitely` finite state machine (src/definitely/fsm.py) *)
(* as a state machine: one FSM subclass (its class attributes), at most one *)
(* instance of it, and the calls a client makes on that instance.           *)
(*                                                                          *)
(* Python values are modelled as follows.  State names, handler names and   *)
(* exception classes are strings.  None and the UNKNOWN_STATE sentinel are  *)
(* reserved strings no state name equals.  A value of the                   *)
(* allowed_transitions dict is a record: is_none says the value is None,    *)
(* items is the set of the members of the list otherwise (the code only     *)
(* tests membership with `in`, so order and repetition play no part).       *)
(***************************************************************************)
EXTENDS Integers, Sequences, FiniteSets, TLC

VARIABLES
    allowed_transitions,  \* class attribute: the transition table (a dict)
    default_state,        \* class attribute: the default state
    attrs,                \* what getattr finds under each handler name
    constructed,          \* TRUE once FSM.__init__ has returned an instance
    state_names,          \* self._state_names
    obj,                  \* self.obj
    current_state,        \* self._current_state
    last                  \* the most recent call on the machine and its outcome

vars == <<allowed_transitions, default_state, attrs, constructed,
          state_names, obj, current_state, last>>

----------------------------------------------------------------------------
(* Values *)

None == "<None>"

UNKNOWN_STATE == "<UNKNOWN_STATE>"

\* The marker of a constructor keyword argument the caller did not pass.
Unset == "<unset>"

\* The exception classes, and the absence of an exception.
NoError == "<no error>"
InvalidState == "InvalidState"
TransitionNotAllowed == "TransitionNotAllowed"
InvalidHandler == "InvalidHandler"
InvalidDefaultState == "InvalidDefaultState"
NoStatesDefined == "NoStatesDefined"
\* Raised by Python itself when a call does not fit the signature.
TypeError == "TypeError"
\* Whatever exception a client's hook raises.
HookError == "HookError"

\* The empty dictionary {} where it stands for a state: the value from_json
\* falls back to for a missing default_state.
EmptyDict == "<{}>"

\* hash(v) raises TypeError: v cannot be looked up in a dictionary.
Unhashable(v) == v = EmptyDict

----------------------------------------------------------------------------
(* Bounds *)

\* The largest number of successors listed for one state.
MaxSucc == 2

\* The largest number of positional arguments of a transition_to call.
MaxArgs == 2

\* The state names the table, the default state and the calls draw from.
Names == {"created", "waiting", "done"}

\* The associated objects a caller passes.
Job == "job"

----------------------------------------------------------------------------
(* The class definition *)

NoneVal == [is_none |-> TRUE, items |-> {}]

PyList(S) == [is_none |-> FALSE, items |-> S]

TableValues == {NoneVal} \cup {PyList(S) : S \in {T \in SUBSET Names : Cardinality(T) <= MaxSucc}}

Tables == UNION {[K -> TableValues] : K \in SUBSET Names}

\* f"handle_{state_name}"
HandlerName(state_name) ==
    CASE state_name = "created" -> "handle_created"
      [] state_name = "waiting" -> "handle_waiting"
      [] state_name = "done" -> "handle_done"
      [] state_name = "any" -> "handle_any"
      [] OTHER -> "handle_?"

\* The states whose handle_<state> attribute the classes declare or shadow.
Hooked == {"waiting"}

HandlerNames == {"handle_any"} \cup {HandlerName(s) : s \in Hooked}

\* What an attribute lookup of a handler name can find: nothing, the value
\* None, a value that is not callable (a plain data field), a callable.
AttrKinds == {"absent", "none", "noncallable", "callable"}

\* The hook configurations of the classes: under each handler name one of
\* the kinds above.
AttrConfigs == [HandlerNames -> AttrKinds]

\* The default_state values: the sentinel FSM itself declares, or a name.
Defaults == {UNKNOWN_STATE, "created"}

----------------------------------------------------------------------------
(* The client's calls *)

\* A constructor call FSM(*pos, initial_state=kw_initial_state).
CtorCalls ==
    [pos : {<<>>, <<"waiting">>}, kw_initial_state : {Unset}]
    \cup [pos : {<<>>}, kw_initial_state : Names]
    \cup [pos : {<<None, "waiting">>}, kw_initial_state : {Unset, "done"}]

\* The positional arguments of a transition_to call: the state name, then
\* the associated objects the caller adds.
TransitionCalls ==
    UNION {{<<n>> \o [i \in 1..(k - 1) |-> Job] : n \in Names} : k \in 1..MaxArgs}

\* What a client's hook does when it is invoked: it may first call
\* transition_to(inner) on the same machine (inner = None: it does not), and
\* it returns or raises.
Returns == [raises |-> FALSE, inner |-> None]

Raises == [raises |-> TRUE, inner |-> None]

PlainHooks == {Returns, Raises}

\* The states a re-entering hook moves the machine to.
ReentryTargets == {"done"}

ReentrantHooks == [raises : BOOLEAN, inner : ReentryTargets]

\* The hooks of a call that a hook itself makes: they return.
Quiet == [any |-> Returns, specific |-> Returns]

----------------------------------------------------------------------------
(* FSM *)

\* is_valid, had it also accepted the names the table lists as successors.
is_valid_listed(names, state_name) ==
    state_name \in names
        \cup UNION {allowed_transitions[k].items : k \in DOMAIN allowed_transitions}

\* FSM.is_valid
is_valid(names, state_name) == state_name \in names

\* is_allowed, had it allowed every name.
is_allowed_any(cur, state_name) == TRUE

\* is_allowed, had it read the outgoing set of the default state.
is_allowed_from_default(cur, state_name) ==
    LET available_transitions ==
            IF default_state \in DOMAIN allowed_transitions
            THEN allowed_transitions[default_state]
            ELSE NoneVal
    IN  state_name \in available_transitions.items

\* is_allowed, had it read the terminal marker as "anything goes".
is_allowed_none_allows_all(cur, state_name) ==
    LET available_transitions ==
            IF cur \in DOMAIN allowed_transitions
            THEN allowed_transitions[cur]
            ELSE NoneVal
    IN  available_transitions.is_none \/ state_name \in available_transitions.items

\* is_allowed, had it always allowed staying in the current state.
is_allowed_self(cur, state_name) ==
    LET available_transitions ==
            IF cur \in DOMAIN allowed_transitions
            THEN allowed_transitions[cur]
            ELSE NoneVal
    IN  state_name = cur \/ state_name \in available_transitions.items

\* FSM.is_allowed
is_allowed(cur, state_name) ==
    LET available_transitions ==
            IF cur \in DOMAIN allowed_transitions
            THEN allowed_transitions[cur]
            ELSE NoneVal
        available ==
            IF available_transitions.is_none THEN PyList({})
            ELSE available_transitions
    IN  state_name \in available.items

\* getattr(self, handler_name, None): None when the attribute is absent, and
\* None as well when it is there with the value None.
getattr_handler(handler_name) ==
    IF handler_name \in DOMAIN attrs THEN attrs[handler_name] ELSE "absent"

RECURSIVE transition_to(_, _, _)

\* The body of a client's hook, run on the machine st: the call is logged
\* with the arguments it received and the current state it can observe.
RunHook(st, handler_name, hook_args, beh) ==
    LET entered == [st EXCEPT !.log = Append(@, [handler |-> handler_name,
                                                 args |-> hook_args,
                                                 seen |-> st.cur,
                                                 raises |-> beh.raises,
                                                 inner |-> beh.inner])]
        r == IF beh.inner = None THEN [st |-> entered, exc |-> NoError]
             ELSE transition_to(entered, <<beh.inner>>, Quiet)
    IN  IF r.exc # NoError THEN r
        ELSE IF beh.raises THEN [st |-> r.st, exc |-> HookError]
        ELSE r

\* _call_handler, had it caught what the hook raises.
call_handler_swallow(st, handler_name, state_name, beh) ==
    LET handle_specific == getattr_handler(handler_name)
    IN  IF handle_specific \in {"absent", "none"}
        THEN [st |-> st, exc |-> NoError]
        ELSE IF handle_specific # "callable"
        THEN [st |-> st, exc |-> InvalidHandler]
        ELSE [st |-> RunHook(st, handler_name, <<state_name>>, beh).st,
              exc |-> NoError]

\* FSM._call_handler
call_handler(st, handler_name, state_name, beh) ==
    LET handle_specific == getattr_handler(handler_name)
    IN  IF handle_specific \in {"absent", "none"}
        THEN [st |-> st, exc |-> NoError]
        ELSE IF handle_specific # "callable"
        THEN [st |-> st, exc |-> InvalidHandler]
        ELSE RunHook(st, handler_name, <<state_name>>, beh)

\* transition_to, had it invoked the hook of the state before the wildcard
\* hook.
transition_to_specific_first(st, args, hooks) ==
    IF Len(args) # 1 THEN [st |-> st, exc |-> TypeError]
    ELSE LET state_name == args[1] IN
    IF ~is_valid(state_names, state_name)
    THEN [st |-> st, exc |-> InvalidState]
    ELSE IF Unhashable(st.cur)
    THEN [st |-> st, exc |-> TypeError]
    ELSE IF ~is_allowed(st.cur, state_name)
    THEN [st |-> st, exc |-> TransitionNotAllowed]
    ELSE LET r1 == call_handler(st, HandlerName(state_name), state_name,
                                hooks.specific) IN
    IF r1.exc # NoError THEN r1
    ELSE LET r2 == call_handler(r1.st, "handle_any", state_name, hooks.any) IN
    IF r2.exc # NoError THEN r2
    ELSE [st |-> [r2.st EXCEPT !.cur = state_name], exc |-> NoError]

\* transition_to, had it updated the state before it ran the hooks.
transition_to_commit_first(st, args, hooks) ==
    IF Len(args) # 1 THEN [st |-> st, exc |-> TypeError]
    ELSE LET state_name == args[1] IN
    IF ~is_valid(state_names, state_name)
    THEN [st |-> st, exc |-> InvalidState]
    ELSE IF Unhashable(st.cur)
    THEN [st |-> st, exc |-> TypeError]
    ELSE IF ~is_allowed(st.cur, state_name)
    THEN [st |-> st, exc |-> TransitionNotAllowed]
    ELSE LET r1 == call_handler([st EXCEPT !.cur = state_name], "handle_any",
                                state_name, hooks.any) IN
    IF r1.exc # NoError THEN r1
    ELSE call_handler(r1.st, HandlerName(state_name), state_name,
                      hooks.specific)

\* transition_to, had it checked the transition again, against the state
\* the hooks left behind, before it updated the state.
transition_to_revalidate(st, args, hooks) ==
    IF Len(args) # 1 THEN [st |-> st, exc |-> TypeError]
    ELSE LET state_name == args[1] IN
    IF ~is_valid(state_names, state_name)
    THEN [st |-> st, exc |-> InvalidState]
    ELSE IF Unhashable(st.cur)
    THEN [st |-> st, exc |-> TypeError]
    ELSE IF ~is_allowed(st.cur, state_name)
    THEN [st |-> st, exc |-> TransitionNotAllowed]
    ELSE LET r1 == call_handler(st, "handle_any", state_name, hooks.any) IN
    IF r1.exc # NoError THEN r1
    ELSE LET r2 == call_handler(r1.st, HandlerName(state_name), state_name,
                                hooks.specific) IN
    IF r2.exc # NoError THEN r2
    ELSE IF ~is_allowed(r2.st.cur, state_name)
    THEN [st |-> r2.st, exc |-> TransitionNotAllowed]
    ELSE [st |-> [r2.st EXCEPT !.cur = state_name], exc |-> NoError]

\* FSM.transition_to, called with the positional arguments args on the
\* machine st = [cur, log]; hooks says what the hooks it invokes do.
transition_to(st, args, hooks) ==
    IF Len(args) # 1 THEN [st |-> st, exc |-> TypeError]
    ELSE LET state_name == args[1] IN
    IF ~is_valid(state_names, state_name)
    THEN [st |-> st, exc |-> InvalidState]
    ELSE IF Unhashable(st.cur)
    THEN [st |-> st, exc |-> TypeError]
    ELSE IF ~is_allowed(st.cur, state_name)
    THEN [st |-> st, exc |-> TransitionNotAllowed]
    ELSE LET r1 == call_handler(st, "handle_any", state_name, hooks.any) IN
    IF r1.exc # NoError THEN r1
    ELSE LET r2 == call_handler(r1.st, HandlerName(state_name), state_name,
                                hooks.specific) IN
    IF r2.exc # NoError THEN r2
    ELSE [st |-> [r2.st EXCEPT !.cur = state_name], exc |-> NoError]

\* setup, had it also refused a default state that is no key of the table.
setup_default_is_key ==
    IF Cardinality(DOMAIN allowed_transitions) = 0
    THEN [exc |-> NoStatesDefined, names |-> {}]
    ELSE IF default_state \notin DOMAIN allowed_transitions
    THEN [exc |-> InvalidDefaultState, names |-> {}]
    ELSE [exc |-> NoError, names |-> DOMAIN allowed_transitions]

\* setup, had it looked at the default state before the table.
setup_default_first ==
    IF default_state = UNKNOWN_STATE
    THEN [exc |-> InvalidDefaultState, names |-> {}]
    ELSE IF Cardinality(DOMAIN allowed_transitions) = 0
    THEN [exc |-> NoStatesDefined, names |-> {}]
    ELSE [exc |-> NoError, names |-> DOMAIN allowed_transitions]

\* FSM.setup: the exception it raises, and the names it caches.
setup ==
    IF Cardinality(DOMAIN allowed_transitions) = 0
    THEN [exc |-> NoStatesDefined, names |-> {}]
    ELSE IF default_state = UNKNOWN_STATE
    THEN [exc |-> InvalidDefaultState, names |-> {}]
    ELSE [exc |-> NoError, names |-> DOMAIN allowed_transitions]

\* How Python binds a constructor call to __init__(self, obj=None,
\* initial_state=None).
BindInit(call) ==
    IF Len(call.pos) > 2 \/ (Len(call.pos) = 2 /\ call.kw_initial_state # Unset)
    THEN [exc |-> TypeError, obj |-> None, initial_state |-> None]
    ELSE [exc |-> NoError,
          obj |-> IF Len(call.pos) >= 1 THEN call.pos[1] ELSE None,
          initial_state |-> IF Len(call.pos) = 2 THEN call.pos[2]
                            ELSE IF call.kw_initial_state # Unset
                            THEN call.kw_initial_state
                            ELSE None]

\* __init__, had it taken the initial state without looking at it.
FSM_init_unchecked(call) ==
    LET b == BindInit(call)
        s == setup
    IN  IF b.exc # NoError
        THEN [exc |-> b.exc, names |-> {}, obj |-> None, cur |-> None]
        ELSE IF s.exc # NoError
        THEN [exc |-> s.exc, names |-> {}, obj |-> None, cur |-> None]
        ELSE [exc |-> NoError, names |-> s.names, obj |-> b.obj,
              cur |-> b.initial_state]

\* FSM.__init__: the exception it raises, or the fields of the new instance.
FSM_init(call) ==
    LET b == BindInit(call)
        s == setup
    IN  IF b.exc # NoError
        THEN [exc |-> b.exc, names |-> {}, obj |-> None, cur |-> None]
        ELSE IF s.exc # NoError
        THEN [exc |-> s.exc, names |-> {}, obj |-> None, cur |-> None]
        ELSE [exc |-> NoError, names |-> s.names, obj |-> b.obj,
              cur |-> IF b.initial_state # None /\ is_valid(s.names, b.initial_state)
                      THEN b.initial_state
                      ELSE default_state]

----------------------------------------------------------------------------
(* The state machine *)

NoCall == [op |-> "none", call |-> <<>>, exc |-> NoError, pre |-> None, log |-> <<>>]

Init ==
    /\ allowed_transitions \in Tables
    /\ default_state \in Defaults
    /\ attrs \in AttrConfigs
    /\ constructed = FALSE
    /\ state_names = {}
    /\ obj = None
    /\ current_state = None
    /\ last = NoCall

\* fsm = Cls(...): on an exception there is no instance.
Construct(call) ==
    /\ ~constructed
    /\ LET r == FSM_init(call) IN
        /\ constructed' = (r.exc = NoError)
        /\ state_names' = r.names
        /\ obj' = r.obj
        /\ current_state' = r.cur
        /\ last' = [op |-> "init", call |-> call, exc |-> r.exc, pre |-> None,
                    log |-> <<>>]
    /\ UNCHANGED <<allowed_transitions, default_state, attrs>>

\* fsm.transition_to(*args), the hooks behaving as `hooks` says.
TransitionTo(args, hooks) ==
    /\ constructed
    /\ LET r == transition_to([cur |-> current_state, log |-> <<>>], args, hooks) IN
        /\ current_state' = r.st.cur
        /\ last' = [op |-> "transition_to", call |-> args, exc |-> r.exc,
                    pre |-> current_state, log |-> r.st.log]
    /\ UNCHANGED <<allowed_transitions, default_state, attrs, constructed,
                   state_names, obj>>

Next ==
    \/ \E call \in CtorCalls : Construct(call)
    \/ \E args \in TransitionCalls, a \in PlainHooks, s \in PlainHooks :
          TransitionTo(args, [any |-> a, specific |-> s])

Spec == Init /\ [][Next]_vars

\* The engine under hooks that may call back into the machine: the classes
\* that pass the definition validator, constructed at the default state or
\* at an explicit initial state, and driven by transition_to(name).
InitEngine ==
    /\ allowed_transitions \in Tables
    /\ default_state = "created"
    /\ attrs \in AttrConfigs
    /\ constructed = FALSE
    /\ state_names = {}
    /\ obj = None
    /\ current_state = None
    /\ last = NoCall

NextEngine ==
    \/ \E x \in {Unset} \cup Names :
          Construct([pos |-> <<>>, kw_initial_state |-> x])
    \/ \E n \in Names, a, s \in PlainHooks \cup ReentrantHooks :
          TransitionTo(<<n>>, [any |-> a, specific |-> s])

SpecEngine == InitEngine /\ [][NextEngine]_vars

----------------------------------------------------------------------------
(* The queries *)

\* The code points of a state name, as Python compares strings by them.
CodePoints(name) ==
    CASE name = "created" -> <<99, 114, 101, 97, 116, 101, 100>>
      [] name = "waiting" -> <<119, 97, 105, 116, 105, 110, 103>>
      [] name = "done" -> <<100, 111, 110, 101>>
      [] OTHER -> <<>>

RECURSIVE seq_lt(_, _)

\* u < v on sequences of code points: at the first position where they
\* differ the smaller code point decides, and a proper prefix is smaller.
seq_lt(u, v) ==
    IF v = <<>> THEN FALSE
    ELSE IF u = <<>> THEN TRUE
    ELSE IF Head(u) # Head(v) THEN Head(u) < Head(v)
    ELSE seq_lt(Tail(u), Tail(v))

\* a < b on Python strings.
str_lt(a, b) == seq_lt(CodePoints(a), CodePoints(b))

RECURSIVE sorted_descending(_)

\* sorted, had it listed the names from the largest down.
sorted_descending(names) ==
    IF names = {} THEN <<>>
    ELSE LET most == CHOOSE x \in names : \A y \in names \ {x} : str_lt(y, x)
         IN  <<most>> \o sorted_descending(names \ {most})

RECURSIVE sorted(_)

\* sorted(names): the list of the names in ascending order.
sorted(names) ==
    IF names = {} THEN <<>>
    ELSE LET least == CHOOSE x \in names : \A y \in names \ {x} : str_lt(x, y)
         IN  <<least>> \o sorted(names \ {least})

\* FSM.current_state, on the instance inst = [names, cur].
FSM_current_state(inst) == [ret |-> inst.cur, exc |-> NoError, inst |-> inst]

\* all_states, had it emptied the name list while it built the result.
all_states_draining(inst) ==
    [ret |-> sorted(inst.names), exc |-> NoError,
     inst |-> [inst EXCEPT !.names = {}]]

\* FSM.all_states
all_states(inst) == [ret |-> sorted(inst.names), exc |-> NoError, inst |-> inst]

\* The client's call fsm.is_valid(state_name).
FSM_is_valid(inst, state_name) ==
    [ret |-> is_valid(inst.names, state_name), exc |-> NoError, inst |-> inst]

\* The client's call fsm.is_allowed(state_name): the dictionary lookup of
\* the current state raises TypeError when that value cannot be hashed.
FSM_is_allowed(inst, state_name) ==
    IF Unhashable(inst.cur)
    THEN [ret |-> None, exc |-> TypeError, inst |-> inst]
    ELSE [ret |-> is_allowed(inst.cur, state_name), exc |-> NoError,
          inst |-> inst]

\* The query calls of a client: the method and its positional arguments.
QueryCalls ==
    [op : {"current_state", "all_states"}, call : {<<>>}]
    \cup [op : {"is_valid", "is_allowed"}, call : {<<n>> : n \in Names}]

QueryOps == {"current_state", "all_states", "is_valid", "is_allowed"}

\* fsm.<q.op>(*q.call)
Query(q) ==
    /\ constructed
    /\ LET inst == [names |-> state_names, cur |-> current_state]
           r == CASE q.op = "current_state" -> FSM_current_state(inst)
                  [] q.op = "all_states" -> all_states(inst)
                  [] q.op = "is_valid" -> FSM_is_valid(inst, q.call[1])
                  [] q.op = "is_allowed" -> FSM_is_allowed(inst, q.call[1])
       IN
        /\ state_names' = r.inst.names
        /\ current_state' = r.inst.cur
        /\ last' = [op |-> q.op, call |-> q.call, exc |-> r.exc,
                    pre |-> current_state, log |-> <<>>, ret |-> r.ret]
    /\ UNCHANGED <<allowed_transitions, default_state, attrs, constructed, obj>>

\* A machine driven by transitions and queries in any order.
NextQueries ==
    \/ \E x \in {Unset} \cup Names :
          Construct([pos |-> <<>>, kw_initial_state |-> x])
    \/ \E n \in Names, a, s \in PlainHooks :
          TransitionTo(<<n>>, [any |-> a, specific |-> s])
    \/ \E q \in QueryCalls : Query(q)

SpecQueries == InitEngine /\ [][NextQueries]_vars

----------------------------------------------------------------------------
(* Types built from a document *)

\* {}: the dictionary without keys.
EmptyTable == [k \in {} |-> NoneVal]

\* The documents handed to from_json: keys says which of the two entries
\* the document has, and an entry it does not have is left at a fixed
\* value that nothing reads.
Documents ==
    {d \in [keys : SUBSET {"allowed_transitions", "default_state"},
            allowed_transitions : Tables,
            default_state : {"created", "waiting"}] :
        /\ "allowed_transitions" \notin d.keys => d.allowed_transitions = EmptyTable
        /\ "default_state" \notin d.keys => d.default_state = "created"}

\* json_data.get(key, fallback)
DocGet(json_data, key, fallback) ==
    IF key \in json_data.keys THEN json_data[key] ELSE fallback

\* from_json, had it left the default state to the class it derives from.
from_json_inherit_default(json_data) ==
    [exc |-> NoError,
     allowed_transitions |-> DocGet(json_data, "allowed_transitions", EmptyTable),
     default_state |-> default_state]

\* FSM.from_json: the class attributes of the type it returns.
from_json(json_data) ==
    [exc |-> NoError,
     allowed_transitions |-> DocGet(json_data, "allowed_transitions", EmptyTable),
     default_state |-> DocGet(json_data, "default_state", EmptyDict)]

\* The base class FSM as it is declared: no table, the sentinel as default
\* state, no hooks.
InitJson ==
    /\ allowed_transitions = EmptyTable
    /\ default_state = UNKNOWN_STATE
    /\ attrs = [h \in HandlerNames |-> "absent"]
    /\ constructed = FALSE
    /\ state_names = {}
    /\ obj = None
    /\ current_state = None
    /\ last = NoCall

\* Cls = FSM.from_json(name, json_data): from here on the class under test
\* is the type returned.
FromJson(json_data) ==
    /\ last.op = "none"
    /\ LET r == from_json(json_data) IN
        /\ allowed_transitions' = r.allowed_transitions
        /\ default_state' = r.default_state
        /\ last' = [op |-> "from_json", call |-> <<json_data>>, exc |-> r.exc,
                    pre |-> None, log |-> <<>>]
    /\ UNCHANGED <<attrs, constructed, state_names, obj, current_state>>

NextJson ==
    \/ \E json_data \in Documents : FromJson(json_data)
    \/ \E x \in {Unset} \cup Names :
          Construct([pos |-> <<>>, kw_initial_state |-> x])
    \/ \E n \in Names : TransitionTo(<<n>>, Quiet)
    \/ \E q \in QueryCalls : Query(q)

SpecJson == InitJson /\ [][NextJson]_vars

----------------------------------------------------------------------------
(* The vocabulary of the properties *)

\* The keys of the transition table.
Keys == DOMAIN allowed_transitions

\* The outgoing set the table gives for state s: empty for a terminal state
\* and for a state that is no key.
Outgoing(s) ==
    IF s \in Keys /\ ~allowed_transitions[s].is_none
    THEN allowed_transitions[s].items
    ELSE {}

\* What the instance has under the handler name h.
Kind(h) == IF h \in DOMAIN attrs THEN attrs[h] ELSE "absent"

\* The call rec is a transition_to(name) call.
IsTransition(rec) == rec.op = "transition_to" /\ Len(rec.call) = 1

\* No hook invoked during the call rec called back into the machine.
NoReentry(rec) == \A i \in DOMAIN rec.log : rec.log[i].inner = None

\* The hook h was invoked during the call rec.
Called(rec, h) == \E i \in DOMAIN rec.log : rec.log[i].handler = h

\* The hook h was invoked during the call rec and raised.
HookRaised(rec, h) ==
    \E i \in DOMAIN rec.log : rec.log[i].handler = h /\ rec.log[i].raises

\* The step of the hook h fails in the call rec: the attribute is a plain
\* data field, or the hook raises.
HookFails(rec, h) ==
    \/ Kind(h) = "noncallable"
    \/ Kind(h) = "callable" /\ HookRaised(rec, h)

\* The handler names of the hooks invoked during the call rec, in order.
Handlers(rec) == [i \in DOMAIN rec.log |-> rec.log[i].handler]

\* The hooks a transition to name has to invoke: the wildcard hook, then
\* the hook of name, each if it is defined.
Expected(name) ==
    (IF Kind("handle_any") = "callable" THEN <<"handle_any">> ELSE <<>>)
    \o (IF Kind(HandlerName(name)) = "callable" THEN <<HandlerName(name)>> ELSE <<>>)

----------------------------------------------------------------------------
(* Properties *)

\* C1: for a transition_to(name) call whose hooks do not call back into the
\* machine, the call succeeds exactly when name is a key of the table, name
\* is in the outgoing set of the state the call started in, and neither the
\* wildcard hook nor the hook of name fails; then the current state is name
\* afterwards, and in every other case it is what it was before the call.
C1_CommitIffStepsPass ==
    (IsTransition(last) /\ NoReentry(last)) =>
        LET name == last.call[1]
            passes == /\ name \in Keys
                      /\ name \in Outgoing(last.pre)
                      /\ ~HookFails(last, "handle_any")
                      /\ ~HookFails(last, HandlerName(name))
        IN  /\ (last.exc = NoError) <=> passes
            /\ passes => current_state = name
            /\ ~passes => current_state = last.pre

\* A transition with both hooks invoked has moved the machine to a new state.
C1_Witness ==
    /\ IsTransition(last) /\ NoReentry(last)
    /\ last.exc = NoError
    /\ Len(last.log) = 2
    /\ current_state = last.call[1]
    /\ current_state # last.pre

\* C2: from a current state that is a key of the table, a transition_to
\* call whose hooks do not call back into the machine, successful or
\* failing, leaves the current state a key of the table, and if it changes
\* the current state from s to t then t is in allowed_transitions[s].
C2_GraphRespected ==
    [][(/\ constructed
        /\ current_state \in Keys
        /\ last'.op = "transition_to"
        /\ NoReentry(last'))
       => /\ current_state' \in Keys
          /\ (current_state' # current_state
                => current_state' \in Outgoing(current_state))]_vars

\* The machine has moved along an edge of the table.
C2_Witness ==
    /\ IsTransition(last) /\ NoReentry(last)
    /\ last.pre \in Keys
    /\ current_state # last.pre
    /\ current_state \in Outgoing(last.pre)

\* C3: transition_to(name) with a name that is no key of the table fails
\* with InvalidState whatever the current state is, also when the current
\* state lists name as a successor, invokes no hook and leaves the current
\* state unchanged.
C3_InvalidTarget ==
    (IsTransition(last) /\ last.call[1] \notin Keys) =>
        /\ last.exc = InvalidState
        /\ last.log = <<>>
        /\ current_state = last.pre

\* The rejected name is listed as a successor of the current state, whose
\* wildcard hook is there to be invoked.
C3_Witness ==
    /\ IsTransition(last)
    /\ last.call[1] \notin Keys
    /\ last.call[1] \in Outgoing(last.pre)
    /\ Kind("handle_any") = "callable"
    /\ last.exc = InvalidState

\* The first half of C4, of the call just made: a key that is not in the
\* outgoing set of the current state is refused with TransitionNotAllowed,
\* no hook is invoked and the current state stays.
C4_Refused(rec, before, after) ==
    (IsTransition(rec) /\ rec.call[1] \in Keys /\ rec.call[1] \notin Outgoing(before)) =>
        /\ rec.exc = TransitionNotAllowed
        /\ rec.log = <<>>
        /\ after = before

\* The next call, after a refused one, asks for a state that is allowed from
\* the unchanged current state.
C4_AllowedAfterRefusal ==
    /\ constructed
    /\ IsTransition(last) /\ last.exc = TransitionNotAllowed
    /\ IsTransition(last')
    /\ last'.call[1] \in Keys
    /\ last'.call[1] \in Outgoing(current_state)

\* C4 as stated: a key that is not in the outgoing set of the current state
\* is refused with TransitionNotAllowed, no hook invoked and the state
\* unchanged; and a following transition_to to a state allowed from that
\* state succeeds.
C4_Original ==
    [][/\ C4_Refused(last', current_state, current_state')
       /\ C4_AllowedAfterRefusal =>
            (last'.exc = NoError /\ current_state' = last'.call[1])]_vars

\* C4, amended: a key that is not in the outgoing set of the current state
\* is refused with TransitionNotAllowed, no hook invoked and the state
\* unchanged; and a following transition_to to a state allowed from that
\* state succeeds unless one of its own hooks fails.
C4_NotAllowed ==
    [][/\ C4_Refused(last', current_state, current_state')
       /\ (/\ C4_AllowedAfterRefusal
           /\ ~HookFails(last', "handle_any")
           /\ ~HookFails(last', HandlerName(last'.call[1]))) =>
            (last'.exc = NoError /\ current_state' = last'.call[1])]_vars

\* A refused call has left the machine in a state from which a key is
\* allowed.
C4_Witness ==
    /\ IsTransition(last)
    /\ last.call[1] \in Keys
    /\ last.exc = TransitionNotAllowed
    /\ current_state = last.pre
    /\ Outgoing(current_state) \cap Keys # {}

\* The hooks invoked during the successful call rec are the wildcard hook
\* once, then the hook of the target once, each if defined, and each of
\* them saw the state the machine was in before the call.
C5_Ordered(rec) ==
    /\ Handlers(rec) = Expected(rec.call[1])
    /\ \A i \in DOMAIN rec.log : rec.log[i].seen = rec.pre

\* C5 as stated: on every successful transition_to(target) the hooks
\* invoked are exactly the wildcard hook once, then handle_<target> once,
\* each only if defined, no hook of another state, and both before the
\* current state changes, so that a hook sees the pre-transition state.
C5_Original ==
    (IsTransition(last) /\ last.exc = NoError) => C5_Ordered(last)

\* C5, amended: the same, on every successful transition_to(target) whose
\* hooks do not call back into the machine.
C5_HookOrdering ==
    (IsTransition(last) /\ last.exc = NoError /\ NoReentry(last)) =>
        C5_Ordered(last)

\* Both hooks have been invoked on a transition that changed the state.
C5_Witness ==
    /\ IsTransition(last) /\ last.exc = NoError /\ NoReentry(last)
    /\ Len(last.log) = 2
    /\ current_state # last.pre

\* C6: transition_to accepts an optional associated object as its second
\* argument, and each hook it invokes receives exactly the pair (target
\* state name, that object), the object being None when the caller gave
\* none.
C6_HookArguments ==
    (last.op = "transition_to" /\ Len(last.call) \in {1, 2}) =>
        LET name == last.call[1]
            object == IF Len(last.call) = 2 THEN last.call[2] ELSE None
        IN  /\ last.exc # TypeError
            /\ \A i \in DOMAIN last.log : last.log[i].args = <<name, object>>

\* The log entries of the call rec in which a hook called back into the
\* machine.
Reentries(rec) == {i \in DOMAIN rec.log : rec.log[i].inner # None}

\* The call transition_to(e.inner) a hook made when it saw the state e.seen
\* goes through: the name is a key, it is in the outgoing set of e.seen, and
\* no handler attribute it meets is a plain data field.
InnerPasses(e) ==
    /\ e.inner \in Keys
    /\ e.inner \in Outgoing(e.seen)
    /\ Kind("handle_any") # "noncallable"
    /\ Kind(HandlerName(e.inner)) # "noncallable"

\* The state s is terminal: it is a key whose entry is the terminal marker
\* or lists no successor.
Terminal(s) == s \in Keys /\ Outgoing(s) = {}

\* The state the hook of the log entry e leaves the machine in: the one its
\* inner call committed, or the one it found.
LeftBy(e) == IF e.inner # None /\ InnerPasses(e) THEN e.inner ELSE e.seen

\* What a call in which an outermost hook raises comes to, as C7 has it:
\* the error of the hook reaches the caller, the state is unchanged, and a
\* failing wildcard hook keeps the hook of the state from being invoked.
C7_Propagates(rec, after) ==
    /\ rec.exc # NoError
    /\ NoReentry(rec) => rec.exc = HookError
    /\ after = rec.pre
    /\ HookRaised(rec, "handle_any") => ~Called(rec, HandlerName(rec.call[1]))

\* C7 as stated: if the wildcard hook or the hook of the state raises
\* during transition_to(name), the engine does not catch, wrap or replace
\* the error, the commit does not happen and the current state is
\* unchanged; if the wildcard hook fails the hook of the state is not
\* invoked.
C7_Original ==
    (IsTransition(last) /\ \E i \in DOMAIN last.log : last.log[i].raises) =>
        C7_Propagates(last, current_state)

\* C7, amended: when a hook of transition_to(name) raises, its error is
\* what the caller gets (the error of the hook's own inner transition_to
\* when that call is refused), and the outer call assigns nothing: the
\* machine is where that hook left it, which is the state before the call
\* when no hook of the call called back into the machine; after a failing
\* wildcard hook the call does not invoke the hook of the state.
C7_HookErrors ==
    IsTransition(last) =>
        \A i \in DOMAIN last.log :
            last.log[i].raises =>
                LET e == last.log[i] IN
                /\ (e.inner = None \/ InnerPasses(e)) => last.exc = HookError
                /\ (e.inner # None /\ ~InnerPasses(e)) =>
                      last.exc = IF e.inner \in Keys
                                 THEN TransitionNotAllowed
                                 ELSE InvalidState
                /\ current_state = LeftBy(e)
                /\ NoReentry(last) => current_state = last.pre
                /\ (e.handler = "handle_any" /\ e.inner # last.call[1]) =>
                      ~Called(last, HandlerName(last.call[1]))

\* The hook of the state has raised after the wildcard hook returned.
C7_Witness ==
    /\ IsTransition(last) /\ NoReentry(last)
    /\ Len(last.log) = 2
    /\ last.log[2].raises
    /\ last.exc = HookError
    /\ current_state = last.pre

\* The resolution of the hook h in the call rec has one of three outcomes.
C8_Resolved(rec, h, after) ==
    /\ Kind(h) = "absent" => ~Called(rec, h)
    /\ Kind(h) = "callable" => Called(rec, h)
    /\ Kind(h) \in {"none", "noncallable"} =>
            (rec.exc = InvalidHandler /\ after = rec.pre)

\* C8: when the instance has no attribute of the hook name the step is
\* skipped without error; when the attribute is callable it is invoked;
\* when the attribute exists but is not callable, transition_to fails with
\* InvalidHandler and the current state is unchanged.
C8_HookResolution ==
    (/\ IsTransition(last)
     /\ last.call[1] \in Keys
     /\ last.call[1] \in Outgoing(last.pre)) =>
        /\ C8_Resolved(last, "handle_any", current_state)
        /\ (Kind("handle_any") = "absent" \/ (Called(last, "handle_any")
                                              /\ ~HookRaised(last, "handle_any")))
             => /\ C8_Resolved(last, HandlerName(last.call[1]), current_state)
                /\ (Kind(HandlerName(last.call[1])) = "absent"
                      /\ ~HookRaised(last, "handle_any")) => last.exc = NoError

\* The constructor call had no explicit initial state.
NoInitialState(call) == Len(call.pos) <= 1 /\ call.kw_initial_state = Unset

\* C9: for a type with a non-empty table and a default state that is not
\* the unset sentinel, constructing an instance with no explicit initial
\* state succeeds and the current state is the default state.
C9_DefaultState ==
    (/\ last.op = "init"
     /\ Keys # {}
     /\ default_state # UNKNOWN_STATE
     /\ NoInitialState(last.call)) =>
        /\ last.exc = NoError
        /\ constructed
        /\ current_state = default_state

\* An instance built with no argument stands at its default state.
C9_Witness ==
    /\ last.op = "init"
    /\ last.call.pos = <<>> /\ last.call.kw_initial_state = Unset
    /\ constructed
    /\ current_state = default_state
    /\ default_state \in Keys

\* C10: an explicit initial state that is a key of the table, given as the
\* first constructor argument, yields an instance whose current state is
\* that state; one that is no key is ignored without error and the
\* instance starts at the default state.
C10_InitialState ==
    (/\ last.op = "init"
     /\ Keys # {}
     /\ default_state # UNKNOWN_STATE
     /\ Len(last.call.pos) = 1
     /\ last.call.kw_initial_state = Unset) =>
        /\ last.exc = NoError
        /\ constructed
        /\ current_state = IF last.call.pos[1] \in Keys
                           THEN last.call.pos[1]
                           ELSE default_state

\* C11: constructing an instance of a type whose table is empty fails with
\* NoStatesDefined, also when its default state is unset as well; with a
\* non-empty table and the unset sentinel as default state it fails with
\* InvalidDefaultState; in both cases there is no instance, so no transition
\* is ever performed on a misconfigured machine.
C11_DefinitionValidation ==
    /\ (last.op = "init" /\ BindInit(last.call).exc = NoError) =>
          /\ Keys = {} => (last.exc = NoStatesDefined /\ ~constructed)
          /\ (Keys # {} /\ default_state = UNKNOWN_STATE) =>
                (last.exc = InvalidDefaultState /\ ~constructed)
    /\ (Keys = {} \/ default_state = UNKNOWN_STATE) =>
          (~constructed /\ last.op \in {"none", "init"})

\* The bare base class, no table and no default state, has been refused.
C11_Witness ==
    /\ last.op = "init"
    /\ last.call.pos = <<>>
    /\ Keys = {}
    /\ default_state = UNKNOWN_STATE
    /\ last.exc = NoStatesDefined
    /\ ~constructed

\* C12: a name is valid exactly when it is a key of the transition table (a
\* name that only appears as a successor is not), and all_states returns
\* the keys, each once, in ascending lexicographic order, whatever the
\* current state is.
C12_ValidityAndListing ==
    /\ last.op = "is_valid" =>
          /\ last.exc = NoError
          /\ last.ret = (last.call[1] \in Keys)
    /\ last.op = "all_states" =>
          /\ last.exc = NoError
          /\ Len(last.ret) = Cardinality(Keys)
          /\ {last.ret[i] : i \in DOMAIN last.ret} = Keys
          /\ \A i, j \in DOMAIN last.ret :
                i < j => str_lt(last.ret[i], last.ret[j])

\* is_valid has refused a name the table lists as a successor only.
C12_Witness ==
    /\ last.op = "is_valid"
    /\ last.ret = FALSE
    /\ \E k \in Keys : last.call[1] \in Outgoing(k)

\* C13: in every reachable state is_allowed(s) is true exactly when s is in
\* the outgoing set the table gives for the current state; at a terminal
\* state, and at a current state that is no key, it is false for every s.
C13_IsAllowed ==
    last.op = "is_allowed" =>
        /\ last.exc = NoError
        /\ last.ret = (last.call[1] \in Outgoing(current_state))
        /\ (current_state \notin Keys \/ allowed_transitions[current_state].is_none
              \/ allowed_transitions[current_state].items = {}) =>
                 last.ret = FALSE

\* At a terminal state is_allowed has refused a key of the table.
C13_Witness ==
    /\ last.op = "is_allowed"
    /\ last.ret = FALSE
    /\ current_state \in Keys
    /\ allowed_transitions[current_state].is_none
    /\ last.call[1] \in Keys

\* What the query q returns on the instance as it is now.
Answer(q) ==
    LET inst == [names |-> state_names, cur |-> current_state]
    IN  CASE q.op = "current_state" -> FSM_current_state(inst).ret
          [] q.op = "all_states" -> all_states(inst).ret
          [] q.op = "is_valid" -> FSM_is_valid(inst, q.call[1]).ret
          [] q.op = "is_allowed" -> FSM_is_allowed(inst, q.call[1]).ret

\* C14: a call of current_state, all_states, is_valid or is_allowed leaves
\* the current state, the table and the set of state names as they were,
\* and the same call made again returns the same result.
C14_QueriesReadOnly ==
    [][last'.op \in QueryOps =>
          /\ UNCHANGED <<current_state, allowed_transitions, default_state,
                         attrs, state_names, obj, constructed>>
          /\ \A q \in QueryCalls :
                (q.op = last'.op /\ q.call = last'.call) =>
                    last'.ret = Answer(q)']_vars

\* all_states has answered on a machine that is away from its default
\* state, and the machine has stayed where it was.
C14_Witness ==
    /\ last.op = "all_states"
    /\ last.ret # <<>>
    /\ last.pre = current_state
    /\ current_state \in Keys
    /\ current_state # default_state

\* The document of the example: a first state that leads to a second,
\* terminal one.
ExampleTable == [k \in {"created", "done"} |->
                    IF k = "created" THEN PyList({"done"}) ELSE NoneVal]

\* C15: a type built by from_json from a document with a table and a
\* default state has exactly that table and that default state, and every
\* call on it is a call of a statically declared type with the same table
\* and default state; for the two-state example, instances start at the
\* first state, the transition to the second succeeds, and from the second
\* the transition back is rejected.
C15_FromJson ==
    [][/\ (/\ last'.op = "from_json"
           /\ last'.call[1].keys = {"allowed_transitions", "default_state"}) =>
              /\ last'.exc = NoError
              /\ allowed_transitions' = last'.call[1].allowed_transitions
              /\ default_state' = last'.call[1].default_state
       /\ last'.op # "from_json" => (Next \/ NextQueries)
       /\ (allowed_transitions = ExampleTable /\ default_state = "created") =>
              /\ (last'.op = "init" /\ NoInitialState(last'.call)) =>
                    (last'.exc = NoError /\ current_state' = "created")
              /\ (/\ constructed /\ current_state = "created"
                  /\ last'.op = "transition_to" /\ last'.call = <<"done">>) =>
                    (last'.exc = NoError /\ current_state' = "done")
              /\ (/\ constructed /\ current_state = "done"
                  /\ last'.op = "transition_to" /\ last'.call = <<"created">>) =>
                    (last'.exc = TransitionNotAllowed /\ current_state' = "done")
      ]_vars

\* The type of the example has reached its second state by a transition
\* and has then rejected the transition back.
C15_Witness ==
    /\ allowed_transitions = ExampleTable
    /\ default_state = "created"
    /\ attrs = [h \in HandlerNames |-> "absent"]
    /\ last.op = "transition_to"
    /\ last.call = <<"created">>
    /\ last.exc = TransitionNotAllowed
    /\ current_state = "done"

\* The document d has an allowed_transitions entry with at least one state.
NonEmptyTable(d) ==
    "allowed_transitions" \in d.keys /\ DOMAIN d.allowed_transitions # {}

\* C16: the factory call succeeds for every document; a document without
\* allowed_transitions, or with an empty one, yields a type whose
\* construction fails with NoStatesDefined; a document with a non-empty
\* allowed_transitions and no default_state yields a type whose default
\* state is the unset sentinel and whose construction fails with
\* InvalidDefaultState.
C16_MalformedDocument ==
    [][/\ last'.op = "from_json" =>
              /\ last'.exc = NoError
              /\ (NonEmptyTable(last'.call[1])
                     /\ "default_state" \notin last'.call[1].keys) =>
                    default_state' = UNKNOWN_STATE
       /\ (last.op = "from_json" /\ last'.op = "init") =>
              /\ ~NonEmptyTable(last.call[1]) =>
                    (last'.exc = NoStatesDefined /\ ~constructed')
              /\ (NonEmptyTable(last.call[1])
                     /\ "default_state" \notin last.call[1].keys) =>
                    (last'.exc = InvalidDefaultState /\ ~constructed')
      ]_vars

\* What transition_to(name) raises at a terminal state.
Refusal(name) == IF name \in Keys THEN TransitionNotAllowed ELSE InvalidState

\* A transition_to call made at a terminal state, by the client or by a
\* hook of the call rec, is refused without a hook being invoked, and the
\* machine is at that terminal state when rec is over.
C17_RefusedAtTerminal(rec, after) ==
    /\ Terminal(rec.pre) =>
          /\ rec.exc = Refusal(rec.call[1])
          /\ rec.log = <<>>
          /\ after = rec.pre
    /\ \A i \in DOMAIN rec.log :
          (Terminal(rec.log[i].seen) /\ rec.log[i].inner # None) =>
              /\ rec.exc = Refusal(rec.log[i].inner)
              /\ i = Len(rec.log)
              /\ after = rec.log[i].seen

\* C17 as stated: a terminal state is absorbing. Once the machine is at a
\* state whose entry is the terminal marker or has no outgoing states,
\* every later transition_to fails, with InvalidState for a name that is no
\* key and with TransitionNotAllowed for every key, the current state
\* included; no hook is invoked, and the current state never changes
\* again, also when it was a hook that took the machine there.
C17_Original ==
    IsTransition(last) =>
        /\ C17_RefusedAtTerminal(last, current_state)
        /\ \A i \in DOMAIN last.log :
              /\ Terminal(last.log[i].seen) => current_state = last.log[i].seen
              /\ Terminal(LeftBy(last.log[i])) =>
                    current_state = LeftBy(last.log[i])

\* C17, amended: every transition_to called while the machine is at a
\* terminal state, by the client or by a hook, is refused as stated without
\* a hook being invoked and leaves the state as it is; a terminal state
\* that a hook entered by its own inner transition_to is left in one way
\* only, by the assignment of the outer call when that call succeeds.
C17_TerminalAbsorbing ==
    IsTransition(last) =>
        /\ C17_RefusedAtTerminal(last, current_state)
        /\ \A i \in DOMAIN last.log :
              (Terminal(last.log[i].seen) \/ Terminal(LeftBy(last.log[i]))) =>
                  current_state = IF last.exc = NoError
                                  THEN last.call[1]
                                  ELSE IF Terminal(LeftBy(last.log[i]))
                                  THEN LeftBy(last.log[i])
                                  ELSE last.log[i].seen

\* At a state marked terminal, of a class with both hooks callable, the
\* transition to that same state has been refused.
C17_Witness ==
    /\ last.op = "transition_to"
    /\ last.pre = current_state
    /\ current_state \in Keys
    /\ allowed_transitions[current_state].is_none
    /\ last.call = <<current_state>>
    /\ last.exc = TransitionNotAllowed
    /\ Kind("handle_any") = "callable"
    /\ Kind(HandlerName(current_state)) = "callable"

\* C18: a default state that is neither the unset sentinel nor a key of a
\* non-empty table is accepted at construction without an error; the
\* instance reports that value from current_state although is_valid of it
\* is false, and it is stuck there: is_allowed is false for every name,
\* every transition_to fails, and the current state stays the non-key value.
C18_NonKeyDefault ==
    (Keys # {} /\ default_state # UNKNOWN_STATE /\ default_state \notin Keys) =>
        /\ (last.op = "init" /\ NoInitialState(last.call)) =>
              (last.exc = NoError /\ constructed /\ current_state = default_state)
        /\ (constructed /\ last.pre = default_state) =>
              /\ current_state = default_state
              /\ last.op = "current_state" => last.ret = default_state
              /\ (last.op = "is_valid" /\ last.call = <<default_state>>) =>
                    last.ret = FALSE
              /\ last.op = "is_allowed" => last.ret = FALSE
              /\ last.op = "transition_to" => last.exc # NoError

\* An instance at a default state that is no key has refused the
\* transition to a state that is a key.
C18_Witness ==
    /\ Keys # {}
    /\ default_state \notin Keys
    /\ constructed
    /\ last.op = "transition_to"
    /\ last.pre = default_state
    /\ last.call[1] \in Keys
    /\ last.exc = TransitionNotAllowed
    /\ current_state = default_state

\* The statement of C19 for the attribute kinds `present` read as "present
\* but not callable", on the record rec of a transition_to call that passed
\* validation and the reachability check.
C19_Dispatch(rec, present) ==
    LET target == rec.call[1] IN
    /\ (/\ Kind("handle_any") = "callable"
        /\ ~HookRaised(rec, "handle_any")
        /\ Kind(HandlerName(target)) \in present) =>
            /\ rec.log # <<>>
            /\ rec.log[1].handler = "handle_any"
            /\ ~Called(rec, HandlerName(target))
            /\ rec.exc = InvalidHandler
            /\ current_state = rec.pre
    /\ Kind("handle_any") \in present =>
            /\ rec.log = <<>>
            /\ rec.exc = InvalidHandler
            /\ current_state = rec.pre

\* C19: hook dispatch is not all-or-nothing. When the wildcard hook is
\* callable and handle_<target> is present but not callable,
\* transition_to(target) first invokes the wildcard hook and only then
\* fails with InvalidHandler, the current state unchanged; when the
\* wildcard attribute is present but not callable, InvalidHandler is raised
\* before the specific hook is invoked.
C19_PartialDispatch ==
    (/\ IsTransition(last)
     /\ last.call[1] \in Keys
     /\ last.call[1] \in Outgoing(last.pre)) =>
        C19_Dispatch(last, {"none", "noncallable"})

\* After the hook of the entry e has returned, nothing else stops the outer
\* call rec: if e is the wildcard hook, the hook of the target is still to
\* pass.
OuterPasses(rec, e) ==
    e.handler = "handle_any" =>
        /\ Kind(HandlerName(rec.call[1])) # "noncallable"
        /\ ~HookRaised(rec, HandlerName(rec.call[1]))

\* C20: when one hook invoked during transition_to(a) from the state s
\* itself calls transition_to(b), the inner call is validated against s and
\* commits b; the outer call then commits a without validating again, so
\* the machine ends at a even when a is not in the outgoing set of b; and
\* when the hook fails after its inner call went through, the outer call
\* fails with the machine at b.
C20_ReentrantHooks ==
    (IsTransition(last) /\ Cardinality(Reentries(last)) = 1) =>
        LET e == last.log[CHOOSE i \in Reentries(last) : TRUE]
        IN  /\ e.seen = last.pre
            /\ (InnerPasses(e) /\ ~e.raises /\ OuterPasses(last, e)) =>
                  (last.exc = NoError /\ current_state = last.call[1])
            /\ (InnerPasses(e) /\ e.raises) =>
                  (last.exc = HookError /\ current_state = e.inner)
            /\ ~InnerPasses(e) =>
                  /\ last.exc \in {InvalidState, TransitionNotAllowed}
                  /\ current_state = last.pre

\* The outer call has committed a state that the table does not allow
\* after the state the hook had moved the machine to.
C20_Witness ==
    /\ IsTransition(last)
    /\ Cardinality(Reentries(last)) = 1
    /\ LET e == last.log[CHOOSE i \in Reentries(last) : TRUE]
       IN  /\ InnerPasses(e)
           /\ e.inner # last.call[1]
           /\ e.inner # last.pre
           /\ last.call[1] \notin Outgoing(e.inner)
    /\ last.exc = NoError
    /\ current_state = last.call[1]
====
